---- MODULE Spec2Model ----
(***************************************************************************)
(* Model of the QQ Bot channel plugin: target parsing (outbound.ts         *)
(* parseTarget, channel.ts messaging), outbound dispatch (outbound.ts      *)
(* sendText / sendProactiveMessage, channel.ts outbound.sendText), the     *)
(* gateway status callbacks (channel.ts gateway.startAccount) and the      *)
(* configuration writes (channel.ts setup.applyAccountConfig,              *)
(* onboarding.ts configure).                                               *)
(*                                                                         *)
(* A JavaScript string is a sequence of text fragments; strings that the   *)
(* code inspects character by character are sequences of one-character     *)
(* fragments, so "" is << >>.  The JavaScript values undefined and null    *)
(* are the two reserved one-fragment sequences Undefined and Null.         *)
(***************************************************************************)
EXTENDS Integers, Sequences, FiniteSets, TLC

VARIABLES
    \* ---- target parsing ----
    raw,          \* the string handed to the parser
    ran,          \* which of the three functions have been applied to raw
    target,       \* result of parseTarget(raw)
    looks,        \* result of looksLikeId(raw)
    normalized,   \* result of normalizeTarget(raw)
    \* ---- outbound dispatch ----
    pc,           \* position of the running call: idle, awaitToken,
                  \* awaitSend, returned
    fn,           \* the function called: sendText or sendProactiveMessage
    viaHook,      \* the call was made by qqbotPlugin.outbound.sendText
    ctx,          \* its arguments: account, to, text, replyToId
    netCalls,     \* the remote operations invoked so far, in order
    remote,       \* how the remote operations have settled
    outcome,      \* the OutboundResult returned
    escaped,      \* an exception has propagated out of the call
    hookResult,   \* what outbound.sendText returned, once it has
    \* ---- gateway ----
    session,      \* per account: the gateway session's state machine
    status,       \* per account: the runtime status the host holds
                  \* (ctx.getStatus / ctx.setStatus)
    abortSignal,  \* per account: abortSignal.aborted
    now,          \* Date.now()
    \* ---- configuration ----
    cfg,          \* channels.qqbot of the configuration object: root
                  \* fields and the accounts map
    env,          \* process.env
    written       \* the last configuration write: its name, account id,
                  \* inputs and the configuration it returned

parseVars == <<raw, ran, target, looks, normalized>>
sendVars ==
    <<pc, fn, viaHook, ctx, netCalls, remote, outcome, escaped, hookResult>>

gwVars == <<session, status, abortSignal, now>>
cfgVars == <<cfg, env, written>>

vars == <<raw, ran, target, looks, normalized,
          pc, fn, viaHook, ctx, netCalls, remote, outcome, escaped,
          hookResult, session, status, abortSignal, now, cfg, env, written>>

-----------------------------------------------------------------------------
(* JavaScript values *)

Undefined == <<"#undefined">>
Null == <<"#null">>
\* the value of a result variable before its function has run
NoTarget == [type |-> "none", id |-> << >>]

\* JavaScript truthiness of a string-or-nullish value: undefined, null and
\* "" are falsy.
Truthy(v) == v # Undefined /\ v # Null /\ v # << >>

-----------------------------------------------------------------------------
(* Strings *)

Uppers == <<"A","B","C","D","E","F","G","H","I","J","K","L","M",
            "N","O","P","Q","R","S","T","U","V","W","X","Y","Z">>
Lowers == <<"a","b","c","d","e","f","g","h","i","j","k","l","m",
            "n","o","p","q","r","s","t","u","v","w","x","y","z">>

\* One character lower-cased: what the i flag of a regular expression
\* compares.
LowerChar(c) ==
    IF \E i \in 1..26 : Uppers[i] = c
      THEN Lowers[CHOOSE i \in 1..26 : Uppers[i] = c]
      ELSE c

LowerStr(s) == [i \in 1..Len(s) |-> LowerChar(s[i])]

\* String.prototype.startsWith
startsWith(s, p) == Len(s) >= Len(p) /\ SubSeq(s, 1, Len(p)) = p

\* String.prototype.slice(n) for 0 <= n
slice(s, n) == SubSeq(s, n + 1, Len(s))

QQBotPrefix == <<"q","q","b","o","t",":">>
C2CPrefix == <<"c","2","c",":">>
GroupPrefix == <<"g","r","o","u","p",":">>
ChannelPrefix == <<"c","h","a","n","n","e","l",":">>

\* to.replace(/^qqbot:/i, ""): one leading "qqbot:" in any letter case is
\* removed, nothing else.
stripChannelName(s) ==
    IF Len(s) >= Len(QQBotPrefix)
       /\ LowerStr(SubSeq(s, 1, Len(QQBotPrefix))) = QQBotPrefix
      THEN slice(s, Len(QQBotPrefix))
      ELSE s

HexDigits == {"0","1","2","3","4","5","6","7","8","9",
              "a","b","c","d","e","f","A","B","C","D","E","F"}

\* the {32} of /^[A-F0-9]{32}$/i
OpenIdLen == 32

\* /^[A-F0-9]{32}$/i.test(s)
isBareOpenId(s) ==
    Len(s) = OpenIdLen /\ \A i \in 1..Len(s) : s[i] \in HexDigits

-----------------------------------------------------------------------------
(* outbound.ts parseTarget; channel.ts messaging *)

\* A parser with the early return of the "group:" branch lost.
parseTargetNoGroup(to) ==
    LET id == stripChannelName(to) IN
    IF startsWith(id, C2CPrefix) THEN [type |-> "c2c", id |-> slice(id, 4)]
    ELSE IF startsWith(id, ChannelPrefix)
      THEN [type |-> "channel", id |-> slice(id, 8)]
    ELSE [type |-> "c2c", id |-> id]

parseTarget(to) ==
    LET id == stripChannelName(to) IN
    IF startsWith(id, C2CPrefix) THEN [type |-> "c2c", id |-> slice(id, 4)]
    ELSE IF startsWith(id, GroupPrefix)
      THEN [type |-> "group", id |-> slice(id, 6)]
    ELSE IF startsWith(id, ChannelPrefix)
      THEN [type |-> "channel", id |-> slice(id, 8)]
    ELSE [type |-> "c2c", id |-> id]

normalizeTarget(t) == [ok |-> TRUE, to |-> stripChannelName(t)]

looksLikeId(id) ==
    LET n == stripChannelName(id) IN
    IF startsWith(n, C2CPrefix) \/ startsWith(n, GroupPrefix)
       \/ startsWith(n, ChannelPrefix)
      THEN TRUE
    ELSE IF isBareOpenId(n) THEN TRUE
    ELSE FALSE

-----------------------------------------------------------------------------
(* Input strings *)

MaxIdLen == 2

IdChars == {"A", "z", ":"}

RECURSIVE SeqsUpTo(_, _)
SeqsUpTo(S, n) ==
    IF n = 0 THEN {<< >>}
    ELSE LET shorter == SeqsUpTo(S, n - 1) IN
         shorter \cup {Append(s, c) : s \in {t \in shorter : Len(t) = n - 1},
                                      c \in S}

Hex32 == <<"0","1","2","3","4","5","6","7","8","9","A","B","C","D","E","F",
           "a","b","c","d","e","f","0","1","2","3","4","5","6","7","8","9">>

LongIds == { Hex32,
             SubSeq(Hex32, 1, 31),
             Hex32 \o <<"0">>,
             SubSeq(Hex32, 1, 31) \o <<"z">> }

Ids == SeqsUpTo(IdChars, MaxIdLen) \cup LongIds

\* Spellings of the channel-name prefix, and near misses of it.
ChannelNameSpellings ==
    { QQBotPrefix,
      <<"Q","Q","B","O","T",":">>,
      <<"Q","q","B","o","t",":">> }

LeadIns == {<< >>, <<"q","q","b","o","t">>} \cup ChannelNameSpellings

SurfaceWords ==
    { << >>, C2CPrefix, GroupPrefix, ChannelPrefix,
      <<"x","y","z",":">>, <<"C","2","C",":">>, <<"g","r","o","u","p">> }

Targets == { l \o w \o i : l \in LeadIns, w \in SurfaceWords, i \in Ids }

-----------------------------------------------------------------------------
(* Configuration objects.  An object is a function from its keys to their  *)
(* values, so a key that is not set is not in the domain.                  *)

DEFAULT_ACCOUNT_ID == "default"

\* { ...a, ...b }
Spread(a, b) == b @@ a

NoKeys == << >>

\* o?.[k]
Get(o, k) == IF k \in DOMAIN o THEN o[k] ELSE Undefined

\* String.prototype.trim on a string of one-character fragments;
\* undefined?.trim() is undefined
RECURSIVE trim(_)
trim(v) ==
    IF v = Undefined \/ v = Null THEN v
    ELSE IF Len(v) > 0 /\ v[1] = " " THEN trim(Tail(v))
    ELSE IF Len(v) > 0 /\ v[Len(v)] = " " THEN trim(SubSeq(v, 1, Len(v) - 1))
    ELSE v

NonDefaultIds == <<"work", "alt">>

EmptyCfg == [root |-> NoKeys, accounts |-> NoKeys]

\* cfg.channels?.qqbot?.accounts?.[accountId], {} when there is none
accountBlock(c, accountId) ==
    IF accountId \in DOMAIN c.accounts THEN c.accounts[accountId] ELSE NoKeys

-----------------------------------------------------------------------------
(* config.ts: listQQBotAccountIds, resolveQQBotAccount,                    *)
(* applyQQBotAccountConfig                                                 *)

\* The ids in order: "default" first when the channel root holds
\* credentials, then the keys of the accounts map.
listQQBotAccountIds(c) ==
    (IF Truthy(Get(c.root, "appId")) THEN <<DEFAULT_ACCOUNT_ID>> ELSE << >>)
    \o SelectSeq(NonDefaultIds, LAMBDA id : id \in DOMAIN c.accounts)

SecretFilePath == <<"/run/qqbot.secret">>

\* the trimmed contents of a secret file, Undefined when it cannot be read
readSecretFile(path) ==
    IF path = SecretFilePath THEN <<"f","1","l","e">> ELSE Undefined

\* The effective account: per field, the account's own block, then (for
\* the credentials of the default account only, when both are set) the
\* environment, then the secret file.
resolveQQBotAccount(c, accountId, e) ==
    LET config == IF accountId = DEFAULT_ACCOUNT_ID
                    THEN c.root ELSE accountBlock(c, accountId)
        envAppId == trim(e.QQBOT_APP_ID)
        envSecret == trim(e.QQBOT_CLIENT_SECRET)
        useEnv == /\ accountId = DEFAULT_ACCOUNT_ID
                  /\ Truthy(envAppId) /\ Truthy(envSecret)
        file == IF Truthy(Get(config, "clientSecretFile"))
                  THEN readSecretFile(config["clientSecretFile"])
                  ELSE Undefined
    IN  [accountId |-> accountId,
         enabled |-> IF "enabled" \in DOMAIN config
                       THEN config["enabled"] ELSE FALSE,
         appId |-> IF Truthy(Get(config, "appId")) THEN config["appId"]
                   ELSE IF useEnv THEN envAppId
                   ELSE Undefined,
         clientSecret |->
                   IF Truthy(Get(config, "clientSecret"))
                     THEN config["clientSecret"]
                   ELSE IF useEnv THEN envSecret
                   ELSE IF Truthy(file) THEN file
                   ELSE Undefined,
         secretSource |->
                   IF Truthy(Get(config, "clientSecret")) THEN "inline"
                   ELSE IF useEnv THEN "env"
                   ELSE IF Truthy(file) THEN "file"
                   ELSE "none",
         name |-> Get(config, "name"),
         imageServerBaseUrl |->
                   IF Truthy(Get(config, "imageServerBaseUrl"))
                     THEN config["imageServerBaseUrl"]
                   ELSE IF accountId = DEFAULT_ACCOUNT_ID
                     THEN e.QQBOT_IMAGE_SERVER_BASE_URL
                   ELSE Undefined,
         config |-> config]

PatchKeys ==
    {"appId", "clientSecret", "clientSecretFile", "name",
     "imageServerBaseUrl"}

\* the fields of a patch that carry a value
supplied(patch) == {k \in PatchKeys : Truthy(patch[k])}

\* Merge the supplied fields of the patch into the block of the account:
\* the channel root for "default", accounts[accountId] otherwise.
applyQQBotAccountConfig(c, accountId, patch) ==
    LET fields == [k \in supplied(patch) |-> patch[k]] IN
    IF accountId = DEFAULT_ACCOUNT_ID
      THEN [c EXCEPT !.root = Spread(c.root, fields)]
      ELSE [c EXCEPT !.accounts =
              Spread(c.accounts,
                     accountId :> Spread(accountBlock(c, accountId), fields))]

-----------------------------------------------------------------------------
(* channel.ts setup.applyAccountConfig *)

\* String.prototype.split(":") on a string of one-character fragments
RECURSIVE split(_)
split(v) ==
    IF \A i \in 1..Len(v) : v[i] # ":" THEN <<v>>
    ELSE LET i == CHOOSE j \in 1..Len(v) :
                     v[j] = ":" /\ \A k \in 1..(j - 1) : v[k] # ":"
         IN  <<SubSeq(v, 1, i - 1)>> \o split(SubSeq(v, i + 1, Len(v)))

\* the patch applyAccountConfig builds from the setup input
setupPatch(input) ==
    LET parts == IF Truthy(input.token) THEN split(input.token) ELSE << >>
        two == Truthy(input.token) /\ Len(parts) = 2
    IN  [appId |-> IF two THEN parts[1] ELSE << >>,
         clientSecret |-> IF two THEN parts[2] ELSE << >>,
         clientSecretFile |-> input.tokenFile,
         name |-> input.name,
         imageServerBaseUrl |-> input.imageServerBaseUrl]

applyAccountConfig(c, accountId, input) ==
    applyQQBotAccountConfig(c, accountId, setupPatch(input))

-----------------------------------------------------------------------------
(* onboarding.ts qqbotOnboardingAdapter.configure *)

\* prompter.confirm({initialValue}): the user answers yes or no, or
\* presses enter and takes the initial value
confirm(answer, initialValue) ==
    IF answer = "enter" THEN initialValue ELSE answer = "yes"

\* validate of the AppID and ClientSecret prompts
validCredential(v) == Truthy(trim(v))

\* validate of the image-server prompt; the scheme is the first fragment
validUrl(v) ==
    /\ Truthy(trim(v))
    /\ v[1] \in {"http://", "https://"}

\* String(await prompter.text({initialValue, validate})).trim() for the
\* credential prompts: the prefilled initial value when the user takes it
\* and it validates, what the user types otherwise
credentialText(answer, initialValue) ==
    trim(IF answer.accept /\ initialValue # Undefined
            /\ validCredential(initialValue)
           THEN initialValue ELSE answer.typed)

\* the same for the image-server prompt
urlText(answer, initialValue) ==
    trim(IF answer.accept /\ initialValue # Undefined
            /\ validUrl(initialValue)
           THEN initialValue ELSE answer.typed)

\* x || undefined
orUndefined(v) == IF Truthy(v) THEN v ELSE Undefined

NoOverride == "#undefined"

\* prompter.select({options, initialValue})
select(answer, options, initialValue) ==
    IF \E i \in 1..Len(options) : options[i] = answer
      THEN answer ELSE initialValue

\* lines 77-94: the account the wizard configures
configureAccountId(c, in) ==
    LET ids == listQQBotAccountIds(c)
        defaultAccountId == IF Len(ids) > 0 THEN ids[1]
                            ELSE DEFAULT_ACCOUNT_ID
        accountId == IF in.override # NoOverride THEN in.override
                     ELSE defaultAccountId
    IN  IF in.shouldPromptAccountIds /\ in.override = NoOverride
           /\ Len(ids) > 1
          THEN select(in.select, ids, accountId)
          ELSE accountId

\* lines 202-203: channels.qqbot.imageServerBaseUrl
\*                || process.env.QQBOT_IMAGE_SERVER_BASE_URL
existingImageUrl(c, e) ==
    IF Truthy(Get(c.root, "imageServerBaseUrl"))
      THEN c.root["imageServerBaseUrl"]
      ELSE e.QQBOT_IMAGE_SERVER_BASE_URL

\* lines 96-236: what the prompts leave in next, appId, clientSecret and
\* imageServerBaseUrl
configurePrompts(c, e, in) ==
    LET accountId == configureAccountId(c, in)
        resolvedAccount == resolveQQBotAccount(c, accountId, e)
        allowEnv == accountId = DEFAULT_ACCOUNT_ID
        envAppId == trim(e.QQBOT_APP_ID)
        envSecret == trim(e.QQBOT_CLIENT_SECRET)
        canUseEnv == allowEnv /\ Truthy(envAppId) /\ Truthy(envSecret)
        hasConfigCredentials ==
            /\ Truthy(Get(resolvedAccount.config, "appId"))
            /\ Truthy(Get(resolvedAccount.config, "clientSecret"))
        typedAppId ==
            credentialText(in.appIdText, orUndefined(resolvedAccount.appId))
        typedSecret ==
            credentialText([accept |-> FALSE, typed |-> in.secretTyped],
                           Undefined)
        keepEnv == canUseEnv /\ ~hasConfigCredentials
                   /\ confirm(in.credConfirm, TRUE)
        keep == ~(canUseEnv /\ ~hasConfigCredentials)
                /\ hasConfigCredentials /\ confirm(in.credConfirm, TRUE)
        next == IF keepEnv
                  THEN [c EXCEPT !.root =
                          Spread(c.root, "enabled" :> TRUE)]
                  ELSE c
        existing == existingImageUrl(next, e)
        wantImageSupport == confirm(in.imageConfirm, Truthy(existing))
    IN  [accountId |-> accountId,
         next |-> next,
         appId |-> IF keepEnv \/ keep THEN Null ELSE typedAppId,
         clientSecret |-> IF keepEnv \/ keep THEN Null ELSE typedSecret,
         imageServerBaseUrl |->
             IF wantImageSupport
               THEN urlText(in.imageText, orUndefined(existing))
               ELSE Null]

\* an account block written without the spread of the existing block
replaceBlock(existing, fields) == fields

\* { ...accounts?.[accountId], <fields> } (lines 264-270, 298-301)
mergeBlock(existing, fields) == Spread(existing, fields)

\* ...(imageServerBaseUrl ? { imageServerBaseUrl } : {})
imageField(imageServerBaseUrl) ==
    IF Truthy(imageServerBaseUrl)
      THEN "imageServerBaseUrl" :> imageServerBaseUrl
      ELSE NoKeys

\* lines 238-307: the write
configureWrite(next, accountId, appId, clientSecret, imageServerBaseUrl) ==
    IF Truthy(appId) /\ Truthy(clientSecret)
      THEN LET fields == Spread(("enabled" :> TRUE) @@ ("appId" :> appId)
                                 @@ ("clientSecret" :> clientSecret),
                                imageField(imageServerBaseUrl))
           IN  IF accountId = DEFAULT_ACCOUNT_ID
                 THEN [next EXCEPT !.root = Spread(next.root, fields)]
                 ELSE [root |-> Spread(next.root, "enabled" :> TRUE),
                       accounts |->
                          Spread(next.accounts,
                                 accountId :>
                                    mergeBlock(accountBlock(next, accountId),
                                               fields))]
    ELSE IF Truthy(imageServerBaseUrl)
      THEN IF accountId = DEFAULT_ACCOUNT_ID
             THEN [next EXCEPT !.root =
                     Spread(next.root,
                            "imageServerBaseUrl" :> imageServerBaseUrl)]
             ELSE [next EXCEPT !.accounts =
                     Spread(next.accounts,
                            accountId :>
                               mergeBlock(accountBlock(next, accountId),
                                  "imageServerBaseUrl" :> imageServerBaseUrl))]
    ELSE next

\* configure: { cfg: next, accountId }
configure(c, e, in) ==
    LET p == configurePrompts(c, e, in) IN
    [cfg |-> configureWrite(p.next, p.accountId, p.appId, p.clientSecret,
                            p.imageServerBaseUrl),
     accountId |-> p.accountId]

-----------------------------------------------------------------------------
(* Configurations, environments and inputs of the writes *)

AppIdA == <<"1","0","2">>
SecretA == <<"s","3","c">>
UrlA == <<"http://", "10.0.0.1:18765">>
UrlTyped == <<"https://", "img.example:18765">>
UrlEnv == <<"http://", "env.example:18765">>

FullBlock ==
    ("enabled" :> FALSE) @@ ("appId" :> AppIdA) @@ ("clientSecret" :> SecretA)
    @@ ("clientSecretFile" :> SecretFilePath) @@ ("name" :> <<"Bot">>)
    @@ ("imageServerBaseUrl" :> UrlA)

CredBlock ==
    ("enabled" :> TRUE) @@ ("appId" :> <<"2","0","4">>)
    @@ ("clientSecret" :> <<"k","2">>)

NamedBlock == ("name" :> <<"Spare">>) @@ ("clientSecretFile" :> SecretFilePath)

RootBlocks == {NoKeys, FullBlock, CredBlock, NamedBlock}

AccountMaps ==
    { NoKeys,
      "work" :> NamedBlock,
      "alt" :> CredBlock,
      ("work" :> FullBlock) @@ ("alt" :> CredBlock) }

Cfgs == [root : RootBlocks, accounts : AccountMaps]

NoEnv ==
    [QQBOT_APP_ID |-> Undefined, QQBOT_CLIENT_SECRET |-> Undefined,
     QQBOT_IMAGE_SERVER_BASE_URL |-> Undefined]

Envs ==
    [QQBOT_APP_ID : {Undefined, <<" ","9","0","9">>},
     QQBOT_CLIENT_SECRET : {Undefined, <<"e","n","v">>},
     QQBOT_IMAGE_SERVER_BASE_URL : {Undefined, UrlEnv}]

AccountIds == {DEFAULT_ACCOUNT_ID, "work", "alt"}

SetupTokens ==
    { Undefined,
      <<"7","7",":","k","e","y">>,
      <<"7","7">>,
      <<"7",":","k",":","x">>,
      <<":">> }

SetupInputs ==
    [token : SetupTokens,
     tokenFile : {Undefined, SecretFilePath},
     name : {Undefined, <<"New">>},
     imageServerBaseUrl : {Undefined, UrlTyped}]

ConfirmAnswers == {"enter", "yes", "no"}

WizardInputs ==
    [override : {NoOverride} \cup AccountIds,
     shouldPromptAccountIds : BOOLEAN,
     select : {"enter", "alt"},
     credConfirm : ConfirmAnswers,
     appIdText : [accept : BOOLEAN, typed : {<<" ","7","7">>}],
     secretTyped : {<<"k","e","y"," ">>},
     imageConfirm : ConfirmAnswers,
     imageText : [accept : BOOLEAN, typed : {UrlTyped}]]

NoWrite ==
    [name |-> "none", accountId |-> DEFAULT_ACCOUNT_ID,
     supplied |-> {}, input |-> NoKeys, cfg |-> EmptyCfg]

\* the state of the configuration before any write
ConfigIdle ==
    /\ cfg = EmptyCfg
    /\ env = NoEnv
    /\ written = NoWrite

-----------------------------------------------------------------------------
(* channel.ts gateway.startAccount and status.defaultRuntime; the session  *)
(* state machine of startGateway (gateway.ts)                              *)

GatewayAccounts == {DEFAULT_ACCOUNT_ID, "work"}

GatewayErrors == {<<"socket closed">>, <<"token rejected">>}

MaxAttempts == 2
MaxClock == 2

defaultRuntime ==
    [accountId |-> DEFAULT_ACCOUNT_ID, running |-> FALSE,
     connected |-> FALSE, lastConnectedAt |-> Null, lastError |-> Null]

\* state: Idle, Authenticating, Connected, Reconnecting or Closed;
\* attempts: connection attempts made; returned: startAccount has returned;
\* abortedConnected: the abort signal fired while the status said connected
NewSession ==
    [state |-> "Idle", attempts |-> 0, returned |-> FALSE,
     abortedConnected |-> FALSE]

GatewayIdle ==
    /\ session = [a \in GatewayAccounts |-> NewSession]
    /\ status = [a \in GatewayAccounts |-> defaultRuntime]
    /\ abortSignal = [a \in GatewayAccounts |-> FALSE]
    /\ now = 0

\* A ready callback that marks the account connected and leaves running
\* as it was.
onReadyConnectedOnly(st, t) ==
    [st EXCEPT !.connected = TRUE, !.lastConnectedAt = t]

\* onReady: setStatus({...getStatus(), running: true, connected: true,
\*                     lastConnectedAt: Date.now()})
onReady(st, t) ==
    [st EXCEPT !.running = TRUE, !.connected = TRUE, !.lastConnectedAt = t]

\* onError: setStatus({...getStatus(), lastError: error.message})
onError(st, message) == [st EXCEPT !.lastError = message]

\* What startAccount does to the status once startGateway has resolved:
\* nothing follows the await.
afterStartGateway(st) == st

-----------------------------------------------------------------------------
(* outbound.ts sendText / sendProactiveMessage; channel.ts outbound.sendText *)

NotConfiguredMessage ==
    <<"QQBot not configured (missing appId or clientSecret)">>

NoResult ==
    [channel |-> Undefined, messageId |-> Undefined, timestamp |-> Undefined,
     error |-> Undefined]

NoCtx ==
    [account |-> [appId |-> Undefined, clientSecret |-> Undefined],
     to |-> << >>, text |-> << >>, replyToId |-> Undefined]

\* token, send: none, pending, resolved or rejected; result: what the send
\* operation resolved with; thrown: what the rejected operation threw
NoRemote ==
    [token |-> "none", send |-> "none",
     result |-> [id |-> Undefined, timestamp |-> Undefined],
     thrown |-> [isError |-> FALSE, payload |-> Undefined]]

\* the state of the dispatcher before any call
SendIdle ==
    /\ pc = "idle"
    /\ fn = "none"
    /\ viaHook = FALSE
    /\ ctx = NoCtx
    /\ netCalls = << >>
    /\ remote = NoRemote
    /\ outcome = NoResult
    /\ escaped = FALSE
    /\ hookResult = NoResult

\* String(v) of a thrown value that is not an Error
StringOf(v) ==
    IF v = Undefined THEN <<"undefined">>
    ELSE IF v = Null THEN <<"null">>
    ELSE v

\* err instanceof Error ? err.message : String(err)
errorMessage(thrown) ==
    IF thrown.isError THEN thrown.payload ELSE StringOf(thrown.payload)

\* a guard that tests the application id only
hasAppIdOnly(account) == Truthy(account.appId)

\* !(!account.appId || !account.clientSecret)
hasCredentials(account) ==
    Truthy(account.appId) /\ Truthy(account.clientSecret)

notConfiguredResult ==
    [channel |-> <<"qqbot">>, messageId |-> Undefined,
     timestamp |-> Undefined, error |-> NotConfiguredMessage]

\* a handler that rethrows: the exception leaves the call
rethrow(thrown) == [result |-> NoResult, escapes |-> TRUE]

\* the catch clause: the exception becomes the returned result
catchClause(thrown) ==
    [result |-> [channel |-> <<"qqbot">>, messageId |-> Undefined,
                 timestamp |-> Undefined, error |-> errorMessage(thrown)],
     escapes |-> FALSE]

\* return { channel: "qqbot", messageId: result.id, timestamp: ... }
sentResult(result) ==
    [channel |-> <<"qqbot">>, messageId |-> result.id,
     timestamp |-> result.timestamp, error |-> Undefined]

\* a dispatch that tests replyToId against undefined only
selectSendStrict(f, tgt, accessToken, text, replyToId) ==
    IF f = "sendProactiveMessage" \/ replyToId = Undefined
      THEN IF tgt.type = "c2c"
             THEN [op |-> "sendProactiveC2CMessage",
                   args |-> <<accessToken, tgt.id, text>>]
           ELSE IF tgt.type = "group"
             THEN [op |-> "sendProactiveGroupMessage",
                   args |-> <<accessToken, tgt.id, text>>]
           ELSE [op |-> "sendChannelMessage",
                 args |-> <<accessToken, tgt.id, text>>]
    ELSE IF tgt.type = "c2c"
      THEN [op |-> "sendC2CMessage",
            args |-> <<accessToken, tgt.id, text, replyToId>>]
    ELSE IF tgt.type = "group"
      THEN [op |-> "sendGroupMessage",
            args |-> <<accessToken, tgt.id, text, replyToId>>]
    ELSE [op |-> "sendChannelMessage",
          args |-> <<accessToken, tgt.id, text, replyToId>>]

\* a dispatch whose group reply leaves out the replyToId argument
selectSendReplyDropped(f, tgt, accessToken, text, replyToId) ==
    IF f = "sendProactiveMessage" \/ ~Truthy(replyToId)
      THEN IF tgt.type = "c2c"
             THEN [op |-> "sendProactiveC2CMessage",
                   args |-> <<accessToken, tgt.id, text>>]
           ELSE IF tgt.type = "group"
             THEN [op |-> "sendProactiveGroupMessage",
                   args |-> <<accessToken, tgt.id, text>>]
           ELSE [op |-> "sendChannelMessage",
                 args |-> <<accessToken, tgt.id, text>>]
    ELSE IF tgt.type = "c2c"
      THEN [op |-> "sendC2CMessage",
            args |-> <<accessToken, tgt.id, text, replyToId>>]
    ELSE IF tgt.type = "group"
      THEN [op |-> "sendGroupMessage",
            args |-> <<accessToken, tgt.id, text>>]
    ELSE [op |-> "sendChannelMessage",
          args |-> <<accessToken, tgt.id, text, replyToId>>]

\* The send operation chosen once the token is there, with its arguments.
\* sendProactiveMessage has no replyToId and always takes the first branch;
\* sendText takes it when !replyToId.
selectSend(f, tgt, accessToken, text, replyToId) ==
    IF f = "sendProactiveMessage" \/ ~Truthy(replyToId)
      THEN IF tgt.type = "c2c"
             THEN [op |-> "sendProactiveC2CMessage",
                   args |-> <<accessToken, tgt.id, text>>]
           ELSE IF tgt.type = "group"
             THEN [op |-> "sendProactiveGroupMessage",
                   args |-> <<accessToken, tgt.id, text>>]
           ELSE [op |-> "sendChannelMessage",
                 args |-> <<accessToken, tgt.id, text>>]
    ELSE IF tgt.type = "c2c"
      THEN [op |-> "sendC2CMessage",
            args |-> <<accessToken, tgt.id, text, replyToId>>]
    ELSE IF tgt.type = "group"
      THEN [op |-> "sendGroupMessage",
            args |-> <<accessToken, tgt.id, text, replyToId>>]
    ELSE [op |-> "sendChannelMessage",
          args |-> <<accessToken, tgt.id, text, replyToId>>]

\* { channel, messageId: result.messageId,
\*   error: result.error ? new Error(result.error) : undefined }
\* A value m other than Undefined in the error field is the object
\* new Error(m).
hookReturn(result) ==
    [channel |-> <<"qqbot">>, messageId |-> result.messageId,
     timestamp |-> Undefined,
     error |-> IF Truthy(result.error) THEN result.error ELSE Undefined]

-----------------------------------------------------------------------------
(* Inputs of the dispatcher and outcomes of the remote operations *)

AppIds == {Undefined, << >>, <<"1","0","2">>}
ClientSecrets == {Undefined, << >>, <<"s","3","c">>}
Accounts == [appId : AppIds, clientSecret : ClientSecrets]

SendIds == {<< >>, <<"A">>, Hex32}
SendTargets ==
    { l \o w \o i : l \in LeadIns, w \in SurfaceWords, i \in SendIds }

Texts == {<< >>, <<"hello">>}
ReplyToIds == {Undefined, Null, << >>, <<"msg-42">>}
AccessTokens == {<<"token-1">>}

\* what a remote operation resolves with: {id, timestamp}, or a body
\* without them
RemoteResults ==
    { [id |-> <<"m-1">>, timestamp |-> <<"t-1">>],
      [id |-> Undefined, timestamp |-> Undefined] }

\* what a remote operation rejects with: an Error with a message, an Error
\* with an empty message, or a value that is not an Error
Thrown ==
    { [isError |-> TRUE, payload |-> <<"boom">>],
      [isError |-> TRUE, payload |-> << >>],
      [isError |-> FALSE, payload |-> <<"oops">>],
      [isError |-> FALSE, payload |-> Undefined] }

-----------------------------------------------------------------------------
(* The dispatcher as a state machine: one call, a step per await. *)

\* Entry of sendText or sendProactiveMessage up to its first await.
Enter(f, hook, account, to, text, replyToId) ==
    /\ fn' = f
    /\ viaHook' = hook
    /\ ctx' = [account |-> account, to |-> to, text |-> text,
               replyToId |-> replyToId]
    /\ IF ~hasCredentials(account)
         THEN /\ outcome' = notConfiguredResult
              /\ netCalls' = netCalls
              /\ remote' = remote
              /\ pc' = "returned"
         ELSE /\ netCalls' = Append(netCalls,
                    [op |-> "getAccessToken",
                     args |-> <<account.appId, account.clientSecret>>])
              /\ remote' = [remote EXCEPT !.token = "pending"]
              /\ outcome' = outcome
              /\ pc' = "awaitToken"
    /\ UNCHANGED <<escaped, hookResult>>
    /\ UNCHANGED parseVars
    /\ UNCHANGED gwVars
    /\ UNCHANGED cfgVars

SendText ==
    /\ pc = "idle"
    /\ \E account \in Accounts, to \in SendTargets, text \in Texts,
          replyToId \in ReplyToIds, hook \in BOOLEAN :
         Enter("sendText", hook, account, to, text, replyToId)

SendProactiveMessage ==
    /\ pc = "idle"
    /\ \E account \in Accounts, to \in SendTargets, text \in Texts :
         Enter("sendProactiveMessage", FALSE, account, to, text, Undefined)

\* getAccessToken resolves: the target is parsed and the send operation is
\* invoked.
TokenResolves ==
    /\ pc = "awaitToken"
    /\ \E accessToken \in AccessTokens :
         netCalls' = Append(netCalls,
             selectSend(fn, parseTarget(ctx.to), accessToken, ctx.text,
                        ctx.replyToId))
    /\ remote' = [remote EXCEPT !.token = "resolved", !.send = "pending"]
    /\ pc' = "awaitSend"
    /\ UNCHANGED <<fn, viaHook, ctx, outcome, escaped, hookResult>>
    /\ UNCHANGED parseVars
    /\ UNCHANGED gwVars
    /\ UNCHANGED cfgVars

\* getAccessToken or the send operation rejects: the catch clause runs.
Rejects ==
    /\ pc \in {"awaitToken", "awaitSend"}
    /\ \E thrown \in Thrown :
         /\ remote' = IF pc = "awaitToken"
                         THEN [remote EXCEPT !.token = "rejected",
                                             !.thrown = thrown]
                         ELSE [remote EXCEPT !.send = "rejected",
                                             !.thrown = thrown]
         /\ outcome' = catchClause(thrown).result
         /\ escaped' = catchClause(thrown).escapes
    /\ pc' = "returned"
    /\ UNCHANGED <<fn, viaHook, ctx, netCalls, hookResult>>
    /\ UNCHANGED parseVars
    /\ UNCHANGED gwVars
    /\ UNCHANGED cfgVars

\* the send operation resolves
SendResolves ==
    /\ pc = "awaitSend"
    /\ \E result \in RemoteResults :
         /\ remote' = [remote EXCEPT !.send = "resolved", !.result = result]
         /\ outcome' = sentResult(result)
    /\ pc' = "returned"
    /\ UNCHANGED <<fn, viaHook, ctx, netCalls, escaped, hookResult>>
    /\ UNCHANGED parseVars
    /\ UNCHANGED gwVars
    /\ UNCHANGED cfgVars

\* outbound.sendText builds its result from what sendText returned
HookReturns ==
    /\ pc = "returned"
    /\ viaHook
    /\ ~escaped
    /\ hookResult' = hookReturn(outcome)
    /\ pc' = "hookReturned"
    /\ UNCHANGED <<fn, viaHook, ctx, netCalls, remote, outcome, escaped>>
    /\ UNCHANGED parseVars
    /\ UNCHANGED gwVars
    /\ UNCHANGED cfgVars

ParseIdle ==
    /\ raw = << >>
    /\ ran = {}
    /\ target = NoTarget
    /\ looks = FALSE
    /\ normalized = [ok |-> FALSE, to |-> << >>]

InitSend ==
    /\ SendIdle
    /\ GatewayIdle
    /\ ConfigIdle
    /\ ParseIdle

NextSend ==
    \/ SendText
    \/ SendProactiveMessage
    \/ TokenResolves
    \/ Rejects
    \/ SendResolves
    \/ HookReturns

SpecSend == InitSend /\ [][NextSend]_vars

-----------------------------------------------------------------------------
(* Target parsing as a state machine: one string, each function applied. *)

InitParse ==
    /\ SendIdle
    /\ GatewayIdle
    /\ ConfigIdle
    /\ raw \in Targets
    /\ ran = {}
    /\ target = NoTarget
    /\ looks = FALSE
    /\ normalized = [ok |-> FALSE, to |-> << >>]

ParseTarget ==
    /\ "parseTarget" \notin ran
    /\ ran' = ran \cup {"parseTarget"}
    /\ target' = parseTarget(raw)
    /\ UNCHANGED <<raw, looks, normalized>>
    /\ UNCHANGED sendVars
    /\ UNCHANGED gwVars
    /\ UNCHANGED cfgVars

LooksLikeId ==
    /\ "looksLikeId" \notin ran
    /\ ran' = ran \cup {"looksLikeId"}
    /\ looks' = looksLikeId(raw)
    /\ UNCHANGED <<raw, target, normalized>>
    /\ UNCHANGED sendVars
    /\ UNCHANGED gwVars
    /\ UNCHANGED cfgVars

NormalizeTarget ==
    /\ "normalizeTarget" \notin ran
    /\ ran' = ran \cup {"normalizeTarget"}
    /\ normalized' = normalizeTarget(raw)
    /\ UNCHANGED <<raw, target, looks>>
    /\ UNCHANGED sendVars
    /\ UNCHANGED gwVars
    /\ UNCHANGED cfgVars

NextParse == ParseTarget \/ LooksLikeId \/ NormalizeTarget

SpecParse == InitParse /\ [][NextParse]_vars

-----------------------------------------------------------------------------
(* The gateway as a state machine: one session per account. *)

\* The host calls gateway.startAccount(ctx): startGateway begins to
\* authenticate.
StartAccount ==
    \E a \in GatewayAccounts :
        /\ session[a].state = "Idle"
        /\ ~abortSignal[a]
        /\ session' = [session EXCEPT ![a].state = "Authenticating",
                                      ![a].attempts = 1]
        /\ UNCHANGED <<status, abortSignal, now>>
        /\ UNCHANGED <<parseVars, sendVars, cfgVars>>

\* The token is obtained and the handshake succeeds: ready notification.
GatewayReady ==
    \E a \in GatewayAccounts :
        /\ session[a].state = "Authenticating"
        /\ ~abortSignal[a]
        /\ session' = [session EXCEPT ![a].state = "Connected"]
        /\ status' = [status EXCEPT ![a] = onReady(status[a], now)]
        /\ UNCHANGED <<abortSignal, now>>
        /\ UNCHANGED <<parseVars, sendVars, cfgVars>>

\* A transport failure: error notification, a reconnect is scheduled.
GatewayError ==
    \E a \in GatewayAccounts, e \in GatewayErrors :
        /\ session[a].state \in {"Authenticating", "Connected"}
        /\ ~abortSignal[a]
        /\ session' = [session EXCEPT ![a].state = "Reconnecting"]
        /\ status' = [status EXCEPT ![a] = onError(status[a], e)]
        /\ UNCHANGED <<abortSignal, now>>
        /\ UNCHANGED <<parseVars, sendVars, cfgVars>>

\* The backoff elapses: the session authenticates again.
Reconnect ==
    \E a \in GatewayAccounts :
        /\ session[a].state = "Reconnecting"
        /\ ~abortSignal[a]
        /\ session[a].attempts < MaxAttempts
        /\ session' = [session EXCEPT ![a].state = "Authenticating",
                                      ![a].attempts = @ + 1]
        /\ UNCHANGED <<status, abortSignal, now>>
        /\ UNCHANGED <<parseVars, sendVars, cfgVars>>

\* The host requests cancellation of a started session.
Abort ==
    \E a \in GatewayAccounts :
        /\ session[a].state \notin {"Idle", "Closed"}
        /\ ~abortSignal[a]
        /\ abortSignal' = [abortSignal EXCEPT ![a] = TRUE]
        /\ session' = [session EXCEPT
                         ![a].abortedConnected = status[a].connected]
        /\ UNCHANGED <<status, now>>
        /\ UNCHANGED <<parseVars, sendVars, cfgVars>>

\* The session observes the signal, releases its connection, startGateway
\* resolves and startAccount returns.
Close ==
    \E a \in GatewayAccounts :
        /\ abortSignal[a]
        /\ session[a].state # "Closed"
        /\ session' = [session EXCEPT ![a].state = "Closed",
                                      ![a].returned = TRUE]
        /\ status' = [status EXCEPT ![a] = afterStartGateway(status[a])]
        /\ UNCHANGED <<abortSignal, now>>
        /\ UNCHANGED <<parseVars, sendVars, cfgVars>>

Tick ==
    /\ now < MaxClock
    /\ now' = now + 1
    /\ UNCHANGED <<session, status, abortSignal>>
    /\ UNCHANGED <<parseVars, sendVars, cfgVars>>

InitGateway ==
    /\ GatewayIdle
    /\ ConfigIdle
    /\ SendIdle
    /\ ParseIdle

NextGateway ==
    \/ StartAccount
    \/ GatewayReady
    \/ GatewayError
    \/ Reconnect
    \/ Abort
    \/ Close
    \/ Tick

SpecGateway == InitGateway /\ [][NextGateway]_vars

-----------------------------------------------------------------------------
(* The configuration writes as a state machine: one configuration and     *)
(* environment, one write applied to it.                                   *)

InitConfig ==
    /\ cfg \in Cfgs
    /\ env \in Envs
    /\ written = NoWrite
    /\ GatewayIdle
    /\ SendIdle
    /\ ParseIdle

\* setup.applyAccountConfig({cfg, accountId, input})
ApplyAccountConfig ==
    /\ written.name = "none"
    /\ \E accountId \in AccountIds, input \in SetupInputs :
         written' = [name |-> "applyAccountConfig",
                     accountId |-> accountId,
                     supplied |-> supplied(setupPatch(input)),
                     input |-> input,
                     cfg |-> applyAccountConfig(cfg, accountId, input)]
    /\ UNCHANGED <<cfg, env>>
    /\ UNCHANGED <<parseVars, sendVars, gwVars>>

\* onboarding configure(ctx)
Configure ==
    /\ written.name = "none"
    /\ \E in \in WizardInputs :
         LET p == configurePrompts(cfg, env, in) IN
         written' = [name |-> "configure",
                     accountId |-> configure(cfg, env, in).accountId,
                     supplied |->
                        (IF Truthy(p.appId) /\ Truthy(p.clientSecret)
                           THEN {"appId", "clientSecret"} ELSE {})
                        \cup (IF Truthy(p.imageServerBaseUrl)
                                THEN {"imageServerBaseUrl"} ELSE {}),
                     input |-> in,
                     cfg |-> configure(cfg, env, in).cfg]
    /\ UNCHANGED <<cfg, env>>
    /\ UNCHANGED <<parseVars, sendVars, gwVars>>

NextConfig == ApplyAccountConfig \/ Configure

SpecConfig == InitConfig /\ [][NextConfig]_vars

-----------------------------------------------------------------------------
(* Claims about target parsing *)

\* What a string can be read as: itself, and, when it carries the
\* channel-name prefix in some letter case, what follows the prefix.
Readings(s) ==
    {s} \cup
    (IF Len(s) >= Len(QQBotPrefix)
        /\ LowerStr(SubSeq(s, 1, Len(QQBotPrefix))) = QQBotPrefix
       THEN {SubSeq(s, Len(QQBotPrefix) + 1, Len(s))}
       ELSE {})

SurfaceOfWord ==
    { <<C2CPrefix, "c2c">>, <<GroupPrefix, "group">>,
      <<ChannelPrefix, "channel">> }

\* The <<surface, id>> pairs a string names under the four address shapes
\* c2c:<id>, group:<id>, channel:<id> and bare 32-hex-digit id, with or
\* without the channel-name prefix.
Named(s) ==
    { <<w[2], SubSeq(b, Len(w[1]) + 1, Len(b))>> :
        <<b, w>> \in { x \in Readings(s) \X SurfaceOfWord :
                         /\ Len(x[1]) >= Len(x[2][1])
                         /\ SubSeq(x[1], 1, Len(x[2][1])) = x[2][1] } }
    \cup { <<"c2c", b>> : b \in { r \in Readings(s) :
                                   /\ Len(r) = OpenIdLen
                                   /\ \A i \in 1..Len(r) : r[i] \in HexDigits } }

ParsedAsNamed ==
    \A n \in Named(raw) :
        /\ target = [type |-> n[1], id |-> n[2]]
        /\ "normalizeTarget" \in ran =>
               parseTarget(normalized.to) = [type |-> n[1], id |-> n[2]]

\* C6 as stated: a string of one of the four address shapes, with or
\* without the channel-name prefix, parses to the surface it names and to
\* its embedded id exactly; every other string parses to a direct message
\* whose id is the raw string.
C6_ParseRoundTripRawFallback ==
    "parseTarget" \in ran =>
        /\ ParsedAsNamed
        /\ Named(raw) = {} => target = [type |-> "c2c", id |-> raw]

\* C6 amended: as above, but the id of the fallback is the raw string with
\* one leading channel-name prefix removed (the raw string itself only when
\* it carries no such prefix).
C6_ParseRoundTripStrippedFallback ==
    "parseTarget" \in ran =>
        /\ ParsedAsNamed
        /\ Named(raw) = {} =>
              /\ target.type = "c2c"
              /\ target.id \in Readings(raw)
              /\ \A r \in Readings(raw) : Len(target.id) <= Len(r)

\* a prefixed group address with a non-empty id has been parsed
C6_Witness ==
    /\ "parseTarget" \in ran
    /\ \E n \in Named(raw) : n[1] = "group" /\ Len(n[2]) > 0
                              /\ Len(raw) > Len(GroupPrefix) + Len(n[2])

\* C7: looksLikeId(raw) is true exactly when parseTarget(raw) accepts raw
\* and yields a target.  parseTarget has no failing path, so it yields a
\* target for every string it is applied to.
C7_LooksLikeIdAgreesWithParse ==
    {"parseTarget", "looksLikeId"} \subseteq ran =>
        (looks <=> target.type \in {"c2c", "group", "channel"})

-----------------------------------------------------------------------------
(* Claims about outbound dispatch *)

Returned == pc \in {"returned", "hookReturned"}

\* the send operations invoked so far (every remote call but the token)
SendCalls == SelectSeq(netCalls, LAMBDA c : c.op # "getAccessToken")

Lacks(v) == v \in {Undefined, Null, << >>}

Configured ==
    ~Lacks(ctx.account.appId) /\ ~Lacks(ctx.account.clientSecret)

\* C1: a call of sendText or sendProactiveMessage with an account that
\* lacks appId or clientSecret returns the not-configured error, no
\* messageId, and has invoked no remote operation at all, whatever to, text
\* and replyToId are.
C1_NotConfiguredNoNetwork ==
    (pc # "idle" /\ ~Configured) =>
        /\ Returned
        /\ outcome.error = NotConfiguredMessage
        /\ outcome.messageId = Undefined
        /\ netCalls = << >>
        /\ remote = NoRemote

\* sendProactiveMessage has returned for an account with an appId and an
\* empty clientSecret
C1_Witness ==
    /\ pc = "returned"
    /\ fn = "sendProactiveMessage"
    /\ ~Lacks(ctx.account.appId)
    /\ ctx.account.clientSecret = << >>
    /\ ctx.to # << >>

ProactiveOp(type) ==
    IF type = "c2c" THEN "sendProactiveC2CMessage"
    ELSE IF type = "group" THEN "sendProactiveGroupMessage"
    ELSE "sendChannelMessage"

PassiveOp(type) ==
    IF type = "c2c" THEN "sendC2CMessage"
    ELSE IF type = "group" THEN "sendGroupMessage"
    ELSE "sendChannelMessage"

\* C2: for a configured account and a replyToId that is absent (undefined
\* or null), sendText invokes, once it holds the access token, exactly one
\* send operation: the proactive operation of the parsed surface, the plain
\* channel send without a reply id for a channel target; it never invokes
\* a passive c2c or group reply, and when that operation resolves the
\* returned messageId is the id of its result.
C2_ProactiveDispatch ==
    (fn = "sendText" /\ Configured /\ ctx.replyToId \in {Undefined, Null}) =>
        /\ \A i \in 1..Len(netCalls) :
              netCalls[i].op \notin {"sendC2CMessage", "sendGroupMessage"}
        /\ Len(SendCalls) <= 1
        /\ remote.token = "resolved" =>
              /\ Len(SendCalls) = 1
              /\ SendCalls[1].op = ProactiveOp(parseTarget(ctx.to).type)
              /\ Len(SendCalls[1].args) = 3
              /\ SendCalls[1].args[2] = parseTarget(ctx.to).id
              /\ SendCalls[1].args[3] = ctx.text
        /\ (Returned /\ remote.send = "resolved") =>
              /\ outcome.messageId = remote.result.id
              /\ outcome.error = Undefined

\* sendText with a null replyToId has sent to a prefixed group address and
\* returned the id of the result
C2_Witness ==
    /\ Returned
    /\ fn = "sendText"
    /\ ctx.replyToId = Null
    /\ parseTarget(ctx.to).type = "group"
    /\ ctx.to # stripChannelName(ctx.to)
    /\ remote.send = "resolved"
    /\ outcome.messageId = <<"m-1">>

ReplyDispatch ==
    /\ \A i \in 1..Len(netCalls) :
          netCalls[i].op \notin {"sendProactiveC2CMessage",
                                 "sendProactiveGroupMessage"}
    /\ Len(SendCalls) <= 1
    /\ remote.token = "resolved" =>
          /\ Len(SendCalls) = 1
          /\ SendCalls[1].op = PassiveOp(parseTarget(ctx.to).type)
          /\ Len(SendCalls[1].args) = 4
          /\ SendCalls[1].args[2] = parseTarget(ctx.to).id
          /\ SendCalls[1].args[4] = ctx.replyToId

\* C3 as stated: for a configured account and every replyToId that is a
\* string (not null, not undefined), sendText invokes, once it holds the
\* access token, exactly one send operation, the passive reply operation of
\* the parsed surface with that replyToId, and never a proactive operation.
C3_ReplyDispatchAnyString ==
    (fn = "sendText" /\ Configured /\ ctx.replyToId \notin {Undefined, Null})
        => ReplyDispatch

\* C3 amended: the same for every replyToId that is a non-empty string.
C3_ReplyDispatchNonEmpty ==
    (fn = "sendText" /\ Configured
       /\ ctx.replyToId \notin {Undefined, Null, << >>})
        => ReplyDispatch

\* sendText with replyToId "msg-42" has replied to a group address
C3_Witness ==
    /\ Returned
    /\ fn = "sendText"
    /\ ctx.replyToId = <<"msg-42">>
    /\ parseTarget(ctx.to).type = "group"
    /\ remote.send = "resolved"

ExactlyOne(r) ==
    (r.messageId # Undefined) # (r.error # Undefined)

\* C4: every result sendText returns, and every result outbound.sendText
\* builds from it, has exactly one of messageId and error present.
C4_ExactlyOneOfIdOrError ==
    /\ (Returned /\ fn = "sendText") => ExactlyOne(outcome)
    /\ pc = "hookReturned" => ExactlyOne(hookResult)

\* C5: when getAccessToken or the send operation fails for a configured
\* account, no exception leaves sendText: it returns a result whose error
\* is the failure's message (the message of an Error, the string form of
\* any other thrown value) and that has no messageId; and after a failure
\* of getAccessToken no send operation has been invoked.
C5_FailuresBecomeErrors ==
    /\ ~escaped
    /\ (Configured /\ "rejected" \in {remote.token, remote.send}) =>
          /\ Returned
          /\ outcome.error =
               (IF remote.thrown.isError THEN remote.thrown.payload
                ELSE IF remote.thrown.payload = Undefined
                  THEN <<"undefined">>
                ELSE remote.thrown.payload)
          /\ outcome.messageId = Undefined
    /\ remote.token = "rejected" => SendCalls = << >>

\* getAccessToken has rejected with a value that is not an Error and the
\* call has returned
C5_Witness ==
    /\ pc = "returned"
    /\ fn = "sendText"
    /\ remote.token = "rejected"
    /\ ~remote.thrown.isError
    /\ outcome.error = <<"oops">>

-----------------------------------------------------------------------------
(* Claims about the gateway status *)

\* C8: when cancellation is requested while the account's status says
\* connected, the status held for the account is running=false and
\* connected=false once gateway.startAccount has returned.
C8_AbortedSessionNotRunning ==
    \A a \in GatewayAccounts :
        (session[a].returned /\ session[a].abortedConnected) =>
            /\ ~status[a].running
            /\ ~status[a].connected

\* connected implies running in the status held for every account
ConnectedImpliesRunning ==
    \A a \in GatewayAccounts : status[a].connected => status[a].running

\* a step at which account a's session delivers its ready notification
ReadyStep(a) ==
    session[a].state # "Connected" /\ session'[a].state = "Connected"

\* a step at which account a's session delivers an error notification
ErrorStep(a) ==
    session[a].state # "Reconnecting" /\ session'[a].state = "Reconnecting"

\* a step at which cancellation is requested for account a, or at which
\* its cancelled session closes and startAccount returns
CancelStep(a) ==
    \/ ~abortSignal[a] /\ abortSignal'[a]
    \/ session[a].state # "Closed" /\ session'[a].state = "Closed"

\* what each notification does to the status of the account it is for
NotificationEffects ==
    \A a \in GatewayAccounts :
        /\ ReadyStep(a) =>
              /\ status'[a].running /\ status'[a].connected
              /\ status'[a].lastConnectedAt = now
              /\ status'[a].lastError = status[a].lastError
              /\ status'[a].accountId = status[a].accountId
        /\ ErrorStep(a) =>
              /\ status'[a].lastError \in GatewayErrors
              /\ status'[a] =
                    [status[a] EXCEPT !.lastError = status'[a].lastError]
        /\ CancelStep(a) => status'[a] = status[a]
        /\ ~(ReadyStep(a) \/ ErrorStep(a)) => status'[a] = status[a]

\* C11: in every status reachable from the default runtime status through
\* any sequence of ready notifications, error notifications and
\* cancellation, connected=true implies running=true; an error
\* notification changes only lastError, a ready notification sets running
\* and connected together, and cancellation changes nothing.
C11_ConnectedImpliesRunning ==
    /\ status = [a \in GatewayAccounts |-> defaultRuntime]
    /\ []ConnectedImpliesRunning
    /\ [][NotificationEffects]_vars

\* an account that became ready, then had an error notification, then was
\* cancelled and closed: its status is still connected and running and
\* carries the error
C11_Witness ==
    \E a \in GatewayAccounts :
        /\ session[a].state = "Closed"
        /\ abortSignal[a]
        /\ status[a].connected /\ status[a].running
        /\ status[a].lastError \in GatewayErrors
        /\ status[a].lastConnectedAt \in 0..MaxClock

-----------------------------------------------------------------------------
(* Claims about the configuration writes *)

OtherAccountsKept ==
    \A other \in AccountIds \ {DEFAULT_ACCOUNT_ID, written.accountId} :
        /\ other \in DOMAIN written.cfg.accounts
             <=> other \in DOMAIN cfg.accounts
        /\ accountBlock(written.cfg, other) = accountBlock(cfg, other)

\* the block the write was aimed at, before and after
OldBlock == accountBlock(cfg, written.accountId)
NewBlock == accountBlock(written.cfg, written.accountId)

\* C9 as stated: a write for "default" goes to the channel root and leaves
\* the accounts map unchanged; a write for any other account puts the
\* supplied fields into accounts[accountId], keeps every field of that
\* block that was not supplied, and leaves the channel-root fields and
\* every other account's block unchanged.  For applyAccountConfig and for
\* the configure write.
C9_WriteRoutedNonDestructive ==
    written.name # "none" =>
        IF written.accountId = DEFAULT_ACCOUNT_ID
          THEN /\ written.cfg.accounts = cfg.accounts
               /\ written.supplied \subseteq DOMAIN written.cfg.root
          ELSE /\ written.cfg.root = cfg.root
               /\ OtherAccountsKept
               /\ written.supplied \subseteq DOMAIN NewBlock
               /\ \A k \in DOMAIN OldBlock \ written.supplied :
                     k \in DOMAIN NewBlock /\ NewBlock[k] = OldBlock[k]

\* the write is a configure that stored credentials
StoredCredentials ==
    /\ written.name = "configure"
    /\ {"appId", "clientSecret"} \subseteq written.supplied

\* C9 amended: as stated, except for the enabled flags: a configure write
\* that stores credentials for a non-default account also sets enabled to
\* true in accounts[accountId] and at the channel root; every other root
\* field and every other field of the block that was not supplied is kept.
C9_WriteRoutedKeepsSiblings ==
    written.name # "none" =>
        IF written.accountId = DEFAULT_ACCOUNT_ID
          THEN /\ written.cfg.accounts = cfg.accounts
               /\ written.supplied \subseteq DOMAIN written.cfg.root
          ELSE /\ written.cfg.root =
                     (IF StoredCredentials
                        THEN ("enabled" :> TRUE) @@ cfg.root
                        ELSE cfg.root)
               /\ OtherAccountsKept
               /\ written.supplied \subseteq DOMAIN NewBlock
               /\ StoredCredentials =>
                     "enabled" \in DOMAIN NewBlock /\ NewBlock["enabled"]
               /\ \A k \in DOMAIN OldBlock \ written.supplied :
                     (k # "enabled" \/ ~StoredCredentials) =>
                        k \in DOMAIN NewBlock /\ NewBlock[k] = OldBlock[k]

\* configure has stored typed credentials for account "work", whose block
\* had a name and an image-server URL, next to another account's block
C9_Witness ==
    /\ written.name = "configure"
    /\ written.accountId = "work"
    /\ written.supplied = {"appId", "clientSecret"}
    /\ {"name", "imageServerBaseUrl"} \subseteq DOMAIN OldBlock
    /\ "alt" \in DOMAIN cfg.accounts
    /\ NewBlock["appId"] = <<"7","7">>

\* C10: for every account other than "default", the configuration that
\* configure produces, and the credentials and image-server URL resolved
\* for the account from it, are the same with the three environment
\* variables set as with none of them set.
C10_EnvOnlyForDefault ==
    (written.name = "configure" /\ written.accountId # DEFAULT_ACCOUNT_ID) =>
        /\ written.cfg = configure(cfg, NoEnv, written.input).cfg
        /\ resolveQQBotAccount(written.cfg, written.accountId, env)
             = resolveQQBotAccount(written.cfg, written.accountId, NoEnv)

====
